---- MODULE Spec2Model ----
(***************************************************************************)
(* Verification model of lwmacct/251121-langchain-study.                   *)
(*                                                                         *)
(* Spec        : the interactive loop of apps/app6/main.py (async_main),   *)
(*               its AsyncChatUI (apps/app6/ui.py) and the background      *)
(*               reply tasks (process), under asyncio's single-threaded    *)
(*               cooperative scheduling: a coroutine runs without          *)
(*               interruption from one await to the next.  Up to MaxMsgs   *)
(*               messages; every LLM call and tool call succeeds; the      *)
(*               session is left with Ctrl+D, end of input or an end       *)
(*               action.                                                   *)
(* SpecUI      : the same loop with every key binding, the clock, the      *)
(*               reset_hint timers and every outcome of the router, the    *)
(*               tools and the chat model, for up to MaxMsgsUI messages.   *)
(* SpecSession : a Session (apps/app6/session.py) under any sequence of    *)
(*               add_user_message / add_assistant_message calls.           *)
(* SpecConsole : the synchronous console loops of apps/app3, apps/app5,    *)
(*               apps/03-interactive-chat-trich and                        *)
(*               apps/110-simple-langgraph-tui, one turn at a time, with   *)
(*               every chat-client call succeeding or raising; the 03      *)
(*               loop with the tool loop of Agent.chat                     *)
(*               (apps/app6/agent.py).                                     *)
(* SpecRouter  : one call of the intent router (apps/app6/router.py,       *)
(*               apps/app5/main.py) on a reply of the chat model and a     *)
(*               user text.                                                *)
(* SpecCalc    : one call of a calculator tool (calculate, calculator,     *)
(*               calc) on an expression of up to MaxExprLen tokens.        *)
(* SpecArgs    : the interactive loop of app6 with the arguments its reply *)
(*               tasks pass to end_chat and to the chat model recorded,    *)
(*               for up to MaxMsgsArgs messages of different texts.        *)
(* SpecOutcomes: the interactive loop of app6 with every outcome of the     *)
(*               router, the tools and the chat model, for up to           *)
(*               MaxMsgsArgs messages.                                     *)
(* SpecPiped   : app6 started with piped standard input (async_main and    *)
(*               AsyncChatSession), up to MaxLines lines, with and without *)
(*               -i.                                                       *)
(* SpecTui     : a ChatTUI (apps/app6/tui.py) under typing, Enter and      *)
(*               set_waiting.                                              *)
(* SpecApp4    : one call of route_intent of apps/app4/main.py.            *)
(***************************************************************************)
EXTENDS Integers, Sequences, FiniteSets, TLC

(***************************************************************************)
(* Bounds of the model (not program constants).                            *)
(***************************************************************************)
\* number of messages the user may submit in one run of the interactive loop
MaxMsgs == 3
\* the same, where every key, the clock and every failure are modelled
MaxMsgsUI == 1
\* the same, where the arguments of the reply tasks are recorded, and where
\* every call may fail
MaxMsgsArgs == 2
\* largest max_history a Session is configured with
MaxHistory == 2
\* number of messages appended to a Session
MaxAppends == 5
\* number of turns of a console loop
MaxTurns == 2
\* number of tool rounds the model asks for in one turn of the LangGraph loop
MaxToolRounds == 1
\* resolution of the clock: ticks per second of time.time()
TicksPerSecond == 2
\* number of clock ticks that may pass during a run
MaxTicks == 2
\* number of tokens of an expression given to a calculator
MaxExprLen == 3

(***************************************************************************)
(* Program constants.                                                      *)
(***************************************************************************)
\* ui.py:132  `current_time - self.last_ctrl_c_time < 1.0`  (seconds)
CTRL_C_WINDOW == 1
\* ui.py:146  `event.app.loop.call_later(1.0, reset_hint)`  (seconds)
RESET_HINT_DELAY == 1
\* ui.py:62   `self.last_ctrl_c_time = 0`
INITIAL_LAST_CTRL_C == 0
\* agent.py:78  `max_iterations = 5`
MAX_ITERATIONS == 5
\* session.py:24  `max_history: int = 50`
DEFAULT_MAX_HISTORY == 50

(***************************************************************************)
(* Text.  A text is a sequence of characters; each Chinese character of    *)
(* the source is written as one element named by its pinyin.               *)
(***************************************************************************)
Whitespace == {" ", "nl"}

\* str.lower() on the characters the model uses
LowerChar(c) ==
    CASE c = "B" -> "b"
      [] c = "Y" -> "y"
      [] c = "E" -> "e"
      [] OTHER -> c

Lower(s) == [i \in 1..Len(s) |-> LowerChar(s[i])]

RECURSIVE LStrip(_)
LStrip(s) == IF s # <<>> /\ Head(s) \in Whitespace THEN LStrip(Tail(s)) ELSE s

RECURSIVE RStrip(_)
RStrip(s) ==
    IF s # <<>> /\ s[Len(s)] \in Whitespace
    THEN RStrip(SubSeq(s, 1, Len(s) - 1))
    ELSE s

\* str.strip()
Strip(s) == RStrip(LStrip(s))

\* `k in s` for strings: k occurs in s as a contiguous substring
Contains(s, k) ==
    \E i \in 1..(Len(s) - Len(k) + 1) : SubSeq(s, i, i + Len(k) - 1) = k

\* router.py:85
TimePhrases ==
    { <<"xian", "zai", "ji", "dian">>, <<"ji", "dian", "le">>,
      <<"xian", "zai", "shi", "jian">> }
\* router.py:87
SummaryKeywords ==
    { <<"zong", "jie", "dui", "hua">>, <<"gai", "kuo", "yi", "xia">> }
\* router.py:89
EndKeywords ==
    { <<"jie", "shu", "liao", "tian">>, <<"tui", "chu">>, <<"b", "y", "e">>,
      <<"zai", "jian">> }

\* the fallback with the end keywords tried before the summary keywords
KeywordFallbackEndFirst(user_text) ==
    LET lower == Lower(user_text)
    IN  IF user_text \in TimePhrases THEN "time"
        ELSE IF \E k \in EndKeywords : Contains(lower, k) THEN "end"
        ELSE IF \E k \in SummaryKeywords : Contains(lower, k) THEN "summary"
        ELSE "chat"

\* router.py:82-94, the keyword fallback of route_intent_async
KeywordFallback(user_text) ==
    LET lower == Lower(user_text)
    IN  IF user_text \in TimePhrases THEN "time"
        ELSE IF \E k \in SummaryKeywords : Contains(lower, k) THEN "summary"
        ELSE IF \E k \in EndKeywords : Contains(lower, k) THEN "end"
        ELSE "chat"

\* what the user may type into the input buffer before pressing a key
TypedTexts == { <<"h", "i">>, <<" ">>, <<" ", "B", "y", "e">> }

\* outcome of the router's LLM call: a parsed action of the closed set, or
\* "fallback" (the call raised, no JSON object, invalid JSON, unknown action)
RouteOutcomes == {"time", "chat", "summary", "end", "fallback"}

NoneT == [isNone |-> TRUE, text |-> <<>>]
Some(t) == [isNone |-> FALSE, text |-> t]

(***************************************************************************)
(* State of the interactive loop.                                          *)
(***************************************************************************)
VARIABLES
    mainpc,            \* position of async_main: "loop", "widget", "exiting",
                       \* "awaiting", "closed", "done"
    history,           \* main.py:148  the shared message list
    pending_tasks,     \* main.py:175  the reply tasks, in creation order
    user_input,        \* main.py:179  the loop variable
    pending_count,     \* ui.py:60
    should_exit,       \* ui.py:61
    last_ctrl_c_time,  \* ui.py:62
    pending_outputs,   \* ui.py:63
    buffer,            \* ui.py:108   text of the input buffer
    result_text,       \* ui.py:107
    hint_text,         \* ui.py:113
    timers,            \* ui.py:146   reset_hint callbacks scheduled with call_later
    now,               \* time.time(), in ticks
    display,           \* what has been written to the console, in order
    interrupts         \* log of the times at which Ctrl+C was pressed

loopVars == << mainpc, history, pending_tasks, user_input, pending_count,
               should_exit, last_ctrl_c_time, pending_outputs, buffer,
               result_text, hint_text, timers, now, display, interrupts >>

(***************************************************************************)
(* State of a Session (apps/app6/session.py).                              *)
(***************************************************************************)
VARIABLES
    session_history,   \* session.py:23  Session.history
    max_history,       \* session.py:24  Session.max_history
    appended           \* every message passed to add_*_message, in order

sessionVars == << session_history, max_history, appended >>

(***************************************************************************)
(* State of a synchronous console loop.                                    *)
(***************************************************************************)
VARIABLES
    capp,              \* which program runs: "app3", "app5", "chat03", "tui110"
    cpc,               \* position of its main: "input", "route", "answer",
                       \* "tools", "ended"
    chistory,          \* its message list (history / session.history / messages)
    cturn,             \* number of user messages read so far
    ctext,             \* the text of the current user message
    caction,           \* app5: the routed action of the current turn
    citer,             \* chat03: iteration of Agent.chat; tui110: tool rounds
    cfailed,           \* the answering chat-client call of the current turn raised
    cend               \* why main was left: "", "quit", "end_chat",
                       \* "exception" (propagated out of main), "error"
                       \* (caught by the handler around the loop)

(***************************************************************************)
(* State of a call of Agent.chat (apps/app6/agent.py), made by the 03      *)
(* loop.                                                                   *)
(***************************************************************************)
VARIABLES
    amessages,         \* agent.py:71  what chat has appended to messages
                       \* after the user's message
    tool_calls_made,   \* agent.py:75
    areply             \* the pair chat returned

agentVars == << amessages, tool_calls_made, areply >>

consoleVars == << capp, cpc, chistory, cturn, ctext, caction, citer, cfailed,
                  cend, agentVars >>

(***************************************************************************)
(* State of one call of the intent router (apps/app6/router.py,            *)
(* apps/app5/main.py).                                                     *)
(***************************************************************************)
VARIABLES
    rpc,               \* "call" before route_intent runs, "returned" after,
                       \* "idle" where no call is made
    rreply,            \* what llm.invoke does: raises, or returns a content
    rtext,             \* the user_text argument
    raction,           \* the value returned
    rwarned            \* the fallback warning has been printed

routerVars == << rpc, rreply, rtext, raction, rwarned >>

(***************************************************************************)
(* State of one call of a calculator tool.                                 *)
(***************************************************************************)
VARIABLES
    kpc,               \* "call" before the tool runs, "returned" after,
                       \* "idle" where no call is made
    ktool,             \* which tool: "calculate", "calculator", "calc"
    kexpr,             \* the expression argument
    kresult            \* what the call did: the kind of string returned,
                       \* whether eval was called, whether it raised

calcVars == << kpc, ktool, kexpr, kresult >>

(***************************************************************************)
(* What the reply tasks of the interactive loop passed to the tools and to *)
(* the chat model.                                                         *)
(***************************************************************************)
VARIABLES
    requests           \* one record for each end_chat.invoke (main.py:201)
                       \* and each llm.ainvoke of a reply (main.py:210, 222)

argVars == << requests >>

(***************************************************************************)
(* State of app6 started with piped standard input (main.py:150-170):      *)
(* async_main and its AsyncChatSession.                                    *)
(***************************************************************************)
VARIABLES
    ppc,               \* position of async_main: "tty" (stdin is a terminal),
                       \* "for" (top of the for loop), "wait" (in
                       \* wait_all_pending), "returned", "crashed",
                       \* "interactive"
    interactive,       \* main.py:55   args.interactive
    piped_lines,       \* main.py:151
    line_no,           \* number of piped lines taken by the for loop
    s_history,         \* main.py:66   session.history
    s_tasks,           \* the tasks process_input created, in creation order
    s_should_exit,     \* main.py:68   session.should_exit
    s_pending_count,   \* ui.py:60     pending_count of the piped-mode ui
    s_display          \* what print_user / print_assistant have written

pipedVars == << ppc, interactive, piped_lines, line_no, s_history, s_tasks,
                s_should_exit, s_pending_count, s_display >>

(***************************************************************************)
(* State of a ChatTUI (apps/app6/tui.py).                                  *)
(***************************************************************************)
VARIABLES
    waiting_response,  \* tui.py:33   self._waiting_response
    input_buffer,      \* tui.py:37   text of self._input_buffer
    submitted,         \* the texts _handle_submit was started with, in order
    tui_event          \* the last event handled: "", "type", "enter",
                       \* "set_waiting"

tuiVars == << waiting_response, input_buffer, submitted, tui_event >>

(***************************************************************************)
(* State of one call of route_intent of apps/app4/main.py.                 *)
(***************************************************************************)
VARIABLES
    r4pc,              \* "call" before route_intent runs, "returned" after,
                       \* "idle" where no call is made
    r4decision,        \* what parser_llm.invoke does: raises, or returns a
                       \* RouteDecision with this action
    r4text,            \* the user_text argument
    r4action           \* the action returned

app4Vars == << r4pc, r4decision, r4text, r4action >>

vars == << loopVars, argVars, sessionVars, consoleVars, routerVars, calcVars,
           pipedVars, tuiVars, app4Vars >>

\* the variables a step of a reply task leaves alone
otherThanTask == << sessionVars, consoleVars, routerVars, calcVars,
                    pipedVars, tuiVars, app4Vars >>

\* the variables an action of the interactive loop leaves alone
otherThanLoop == << argVars, otherThanTask >>

\* the variables an action of a Session leaves alone
otherThanSession == << loopVars, argVars, consoleVars, routerVars, calcVars,
                       pipedVars, tuiVars, app4Vars >>

\* the variables an action of a console loop leaves alone
otherThanConsole == << loopVars, argVars, sessionVars, routerVars, calcVars,
                       pipedVars, tuiVars, app4Vars >>

\* the variables a call of the router leaves alone
otherThanRouter == << loopVars, argVars, sessionVars, consoleVars, calcVars,
                      pipedVars, tuiVars, app4Vars >>

\* the variables a call of a calculator leaves alone
otherThanCalc == << loopVars, argVars, sessionVars, consoleVars, routerVars,
                    pipedVars, tuiVars, app4Vars >>

\* the variables the piped mode leaves alone until it hands the history over
otherThanPiped == << argVars, sessionVars, consoleVars, routerVars, calcVars,
                     tuiVars, app4Vars >>

\* the variables a ChatTUI leaves alone
otherThanTui == << loopVars, argVars, sessionVars, consoleVars, routerVars,
                   calcVars, pipedVars, app4Vars >>

\* the variables a call of app4's route_intent leaves alone
otherThanApp4 == << loopVars, argVars, sessionVars, consoleVars, routerVars,
                    calcVars, pipedVars, tuiVars >>

App4Idle ==
    /\ r4pc = "idle"
    /\ r4decision = [raises |-> TRUE, action |-> "chat"]
    /\ r4text = <<>>
    /\ r4action = "chat"

TuiIdle ==
    /\ waiting_response = FALSE
    /\ input_buffer = <<>>
    /\ submitted = <<>>
    /\ tui_event = "idle"

\* standard input is a terminal: main.py:150 is false
PipedIdle ==
    /\ ppc = "tty"
    /\ interactive = FALSE
    /\ piped_lines = <<>>
    /\ line_no = 0
    /\ s_history = <<>>
    /\ s_tasks = <<>>
    /\ s_should_exit = FALSE
    /\ s_pending_count = 0
    /\ s_display = <<>>

CalcIdle ==
    /\ kpc = "idle"
    /\ ktool = "calculate"
    /\ kexpr = <<>>
    /\ kresult = [kind |-> "none", evaluated |-> FALSE, raised |-> FALSE]

RouterIdle ==
    /\ rpc = "idle"
    /\ rreply = [raises |-> TRUE, content |-> <<>>]
    /\ rtext = <<>>
    /\ raction = "chat"
    /\ rwarned = FALSE

\* no call of chat has returned
NoReply == [text |-> "", none |-> TRUE, tools |-> <<>>]

ConsoleIdle ==
    /\ capp = "app3"
    /\ cpc = "ended"
    /\ chistory = <<>>
    /\ cturn = 0
    /\ ctext = <<>>
    /\ caction = ""
    /\ citer = 0
    /\ cfailed = FALSE
    /\ cend = ""
    /\ amessages = <<>>
    /\ tool_calls_made = <<>>
    /\ areply = NoReply

\* a component that a specification does not run
SessionIdle ==
    /\ session_history = <<>>
    /\ max_history = 0
    /\ appended = <<>>

\* the clock at program start: time.time() is far beyond the window
StartTime == CTRL_C_WINDOW * TicksPerSecond

\* the input widget (Application.run_async) has been started and has not
\* returned to get_input_async yet
WidgetRunning == mainpc \in {"widget", "exiting"}

\* the event loop runs other tasks and callbacks only while async_main is
\* suspended in an await
MainSuspended == mainpc \in {"widget", "exiting", "awaiting"}

UserMsg(i) == [role |-> "user", msg |-> i, tool |-> "", err |-> FALSE]
AssistantMsg(i, tool, err) ==
    [role |-> "assistant", msg |-> i, tool |-> tool, err |-> err]

\* a counter that is never decremented
update_pending_up_only(count, delta) ==
    IF delta > 0 THEN count + delta ELSE count

\* ui.py:69-71
update_pending(count, delta) ==
    IF count + delta > 0 THEN count + delta ELSE 0

\* ui.py:96-100: the hint shows the count only when it is positive
get_hint_text == [ctrlc |-> FALSE, n |-> pending_count]

\* ui.py:137
CtrlCHint == [ctrlc |-> TRUE, n |-> 0]

\* console.print of one item; `during` records whether the input widget
\* was running when it was written
Printed(item, during) ==
    [type |-> item.type, msg |-> item.msg, tool |-> item.tool,
     err |-> item.err, during |-> during]

\* a flush that writes the outputs last first
FlushedReversed(outs) ==
    [i \in 1..Len(outs) |-> Printed(outs[Len(outs) + 1 - i], FALSE)]

\* a flush that leaves the list as it is
NotCleared(outs) == outs

\* ui.py:84: self.pending_outputs.clear()
Cleared(outs) == <<>>

\* ui.py:77-84: what flush_pending_outputs writes for a list of outputs.
\* Both of its callers (ui.py:105, main.py:185) run in async_main between
\* two runs of the widget.
Flushed(outs) == [i \in 1..Len(outs) |-> Printed(outs[i], FALSE)]

LoopInit ==
    /\ mainpc = "loop"
    /\ history = <<>>
    /\ pending_tasks = <<>>
    /\ user_input = NoneT
    /\ pending_count = 0
    /\ should_exit = FALSE
    /\ last_ctrl_c_time = INITIAL_LAST_CTRL_C
    /\ pending_outputs = <<>>
    /\ buffer = <<>>
    /\ result_text = NoneT
    /\ hint_text = [ctrlc |-> FALSE, n |-> 0]
    /\ timers = {}
    /\ now = StartTime
    /\ display = <<>>
    /\ interrupts = <<>>
    /\ requests = {}

LoopIdle == LoopInit

Init == LoopInit /\ SessionIdle /\ ConsoleIdle /\ RouterIdle /\ CalcIdle
        /\ PipedIdle /\ TuiIdle /\ App4Idle

(***************************************************************************)
(* AsyncChatUI.get_input_async and its key bindings (ui.py:102-205).       *)
(***************************************************************************)
\* ui.py:104-195: flush what is buffered, build the widget, start run_async
GetInputStart ==
    /\ mainpc = "loop"
    /\ display' = display \o Flushed(pending_outputs)
    /\ pending_outputs' = Cleared(pending_outputs)
    /\ result_text' = NoneT
    /\ buffer' = <<>>
    /\ hint_text' = get_hint_text
    /\ mainpc' = "widget"
    /\ UNCHANGED << history, pending_tasks, user_input, pending_count,
                    should_exit, last_ctrl_c_time, timers, now, interrupts >>
    /\ UNCHANGED otherThanLoop

\* the user edits the buffer (keystrokes other than the bound keys)
TypeText(t) ==
    /\ mainpc = "widget"
    /\ buffer # t
    /\ buffer' = t
    /\ UNCHANGED << mainpc, history, pending_tasks, user_input, pending_count,
                    should_exit, last_ctrl_c_time, pending_outputs,
                    result_text, hint_text, timers, now, display, interrupts >>
    /\ UNCHANGED otherThanLoop

\* ui.py:122-127: Enter submits only text that is not blank
PressEnter(cap) ==
    /\ mainpc = "widget"
    /\ Len(pending_tasks) < cap
    /\ IF Strip(buffer) # <<>>
       THEN /\ result_text' = Some(buffer)
            /\ mainpc' = "exiting"
       ELSE UNCHANGED << result_text, mainpc >>
    /\ UNCHANGED << history, pending_tasks, user_input, pending_count,
                    should_exit, last_ctrl_c_time, pending_outputs, buffer,
                    hint_text, timers, now, display, interrupts >>
    /\ UNCHANGED otherThanLoop

\* ui.py:132: the repeated-interrupt test
WithinWindowLoose(current_time, last) ==
    current_time - last <= CTRL_C_WINDOW * TicksPerSecond

WithinWindow(current_time, last) ==
    current_time - last < CTRL_C_WINDOW * TicksPerSecond

\* ui.py:138: event.current_buffer.reset()
BufferKept == buffer

BufferReset == <<>>

\* ui.py:129-146: Ctrl+C
PressCtrlC ==
    /\ mainpc = "widget"
    /\ interrupts' = Append(interrupts, now)
    /\ IF WithinWindow(now, last_ctrl_c_time)
       THEN /\ should_exit' = TRUE
            /\ mainpc' = "exiting"
            /\ UNCHANGED << last_ctrl_c_time, hint_text, buffer, timers >>
       ELSE /\ last_ctrl_c_time' = now
            /\ hint_text' = CtrlCHint
            /\ buffer' = BufferReset
            /\ timers' = timers \cup
                 { [call |-> Len(pending_tasks) + 1,
                    due |-> now + RESET_HINT_DELAY * TicksPerSecond] }
            /\ UNCHANGED << should_exit, mainpc >>
    /\ UNCHANGED << history, pending_tasks, user_input, pending_count,
                    pending_outputs, result_text, now, display >>
    /\ UNCHANGED otherThanLoop

\* ui.py:141-144: reset_hint, run by the event loop once its delay has passed.
\* hint_text is a local of the get_input_async call that scheduled it: a
\* callback of an earlier call writes a list nobody reads any more.
ResetHint(tm) ==
    /\ MainSuspended
    /\ tm \in timers
    /\ now >= tm.due
    /\ timers' = timers \ {tm}
    /\ hint_text' = IF tm.call = Len(pending_tasks) + 1
                    THEN get_hint_text ELSE hint_text
    /\ UNCHANGED << mainpc, history, pending_tasks, user_input, pending_count,
                    should_exit, last_ctrl_c_time, pending_outputs, buffer,
                    result_text, now, display, interrupts >>
    /\ UNCHANGED otherThanLoop

\* ui.py:148-151: Ctrl+D
PressCtrlD ==
    /\ mainpc = "widget"
    /\ should_exit' = TRUE
    /\ mainpc' = "exiting"
    /\ UNCHANGED << history, pending_tasks, user_input, pending_count,
                    last_ctrl_c_time, pending_outputs, buffer, result_text,
                    hint_text, timers, now, display, interrupts >>
    /\ UNCHANGED otherThanLoop

\* ui.py:203-205 and main.py:180-181: run_async raises EOFError, get_input_async
\* returns None and the loop breaks
EndOfInput ==
    /\ mainpc = "widget"
    /\ should_exit' = TRUE
    /\ user_input' = NoneT
    /\ mainpc' = "closed"
    /\ UNCHANGED << history, pending_tasks, pending_count, last_ctrl_c_time,
                    pending_outputs, buffer, result_text, hint_text, timers,
                    now, display, interrupts >>
    /\ UNCHANGED otherThanLoop

\* time passes; the clock is read only by the Ctrl+C binding and the timers,
\* both of which run while the widget does
Tick ==
    /\ mainpc = "widget"
    /\ now < StartTime + MaxTicks
    /\ now' = now + 1
    /\ UNCHANGED << mainpc, history, pending_tasks, user_input, pending_count,
                    should_exit, last_ctrl_c_time, pending_outputs, buffer,
                    result_text, hint_text, timers, display, interrupts >>
    /\ UNCHANGED otherThanLoop

\* ui.py:197-202: what get_input_async returns once run_async has returned
GetInputResult ==
    IF should_exit THEN NoneT
    ELSE IF ~result_text.isNone /\ result_text.text # <<>>
         THEN Some(Strip(result_text.text))
         ELSE NoneT

(***************************************************************************)
(* async_main, the interactive loop (main.py:177-241).                     *)
(***************************************************************************)
\* main.py:238-241: after the task is started the loop awaits the tasks only
\* when ui.should_exit is set, and otherwise goes round
AfterSubmitAwaiting(exit_flag) == "awaiting"

AfterSubmit(exit_flag) == IF exit_flag THEN "awaiting" ELSE "loop"

\* main.py:179-241: run_async returns; get_input_async returns its result and
\* the loop body runs to its end without an await
RunAsyncReturns ==
    /\ mainpc = "exiting"
    /\ user_input' = GetInputResult
    /\ IF GetInputResult.isNone
       THEN /\ mainpc' = "closed"
            /\ UNCHANGED << history, pending_tasks, pending_count,
                            pending_outputs, display >>
       ELSE LET i == Len(pending_tasks) + 1
                echo == [type |-> "user", msg |-> i, tool |-> "", err |-> FALSE]
            IN  /\ display' = display \o Flushed(Append(pending_outputs, echo))
                /\ pending_outputs' = Cleared(Append(pending_outputs, echo))
                /\ history' = Append(history, UserMsg(i))
                /\ pending_tasks' = Append(pending_tasks,
                       [msg |-> GetInputResult.text, pc |-> "routing",
                        action |-> ""])
                /\ pending_count' = update_pending(pending_count, 1)
                /\ mainpc' = AfterSubmit(should_exit)
    /\ UNCHANGED << should_exit, last_ctrl_c_time, buffer, result_text,
                    hint_text, timers, now, interrupts >>
    /\ UNCHANGED otherThanLoop

\* main.py:244-246: async_main has returned; asyncio.run cancels every task
\* that is not finished (CancelledError is raised at its await, is not an
\* Exception, and leaves through the finally clause) and closes the loop
CancelTask(task) ==
    IF task.pc \in {"routing", "llm"}
    THEN [task EXCEPT !.pc = "cancelled"] ELSE task

RECURSIVE CountAfterCancel(_, _)
CountAfterCancel(tasks, count) ==
    IF tasks = <<>> THEN count
    ELSE CountAfterCancel(Tail(tasks),
             IF Head(tasks).pc \in {"routing", "llm"}
             THEN update_pending(count, -1) ELSE count)

AsyncioRunCleanup ==
    /\ mainpc = "closed"
    /\ pending_tasks' = [i \in 1..Len(pending_tasks) |->
                            CancelTask(pending_tasks[i])]
    /\ pending_count' = CountAfterCancel(pending_tasks, pending_count)
    /\ timers' = {}
    /\ mainpc' = "done"
    /\ UNCHANGED << history, user_input, should_exit, last_ctrl_c_time,
                    pending_outputs, buffer, result_text, hint_text, now,
                    display, interrupts >>
    /\ UNCHANGED otherThanLoop

(***************************************************************************)
(* The background reply task, process (main.py:190-230).                   *)
(***************************************************************************)
\* main.py:197-198, 202-203, 214-215, 226-227: the reply is appended to the
\* history and buffered for display, then the finally clause runs
ReplyAppended(t, tool, err) ==
    /\ history' = Append(history, AssistantMsg(t, tool, err))
    /\ pending_outputs' = Append(pending_outputs,
           [type |-> "assistant", msg |-> t, tool |-> tool, err |-> err])
    /\ pending_count' = update_pending(pending_count, -1)

\* router.py:92: the fallback warning is printed straight to the console
RouterWarning(t) ==
    Printed([type |-> "warning", msg |-> t, tool |-> "", err |-> FALSE],
            WidgetRunning)

\* main.py:201, 208-210, 222: the arguments task t passes when its action is
\* run.  end_chat is given the loop variable user_input as its reason; the
\* chat model is given the history as it is when the call is made, and the
\* summary the rendering of that history (its last 10 messages, router.py:36)
Request(t, action) ==
    IF action = "end"
    THEN [task |-> t, call |-> "end_chat", reason |-> user_input,
          sent |-> <<>>]
    ELSE [task |-> t, call |-> action, reason |-> NoneT, sent |-> history]

\* main.py:192-227 up to the next await: the router's LLM call returns with
\* outcome r (router.py:66-94) and the branch of the action runs.  tool_ok
\* says whether tool.invoke returns or raises.
RouteStep(t, r, tool_ok) ==
    LET task == pending_tasks[t]
        action == IF r = "fallback" THEN KeywordFallback(task.msg) ELSE r
    IN  /\ MainSuspended
        /\ task.pc = "routing"
        /\ display' = IF r = "fallback"
                      THEN Append(display, RouterWarning(t)) ELSE display
        /\ IF action \in {"time", "end"}
           THEN IF tool_ok
                THEN /\ ReplyAppended(t, IF action = "time"
                                         THEN "get_current_time"
                                         ELSE "end_chat", FALSE)
                     /\ should_exit' = (should_exit \/ action = "end")
                     /\ pending_tasks' = [pending_tasks EXCEPT ![t] =
                            [@ EXCEPT !.pc = "done", !.action = action]]
                ELSE \* no except clause: the exception leaves the task
                     \* through finally (main.py:229-230)
                     /\ pending_count' = update_pending(pending_count, -1)
                     /\ pending_tasks' = [pending_tasks EXCEPT ![t] =
                            [@ EXCEPT !.pc = "failed", !.action = action]]
                     /\ UNCHANGED << history, pending_outputs, should_exit >>
           ELSE /\ tool_ok
                /\ pending_tasks' = [pending_tasks EXCEPT ![t] =
                       [@ EXCEPT !.pc = "llm", !.action = action]]
                /\ UNCHANGED << history, pending_outputs, pending_count,
                                should_exit >>
        /\ UNCHANGED << mainpc, user_input, last_ctrl_c_time, buffer,
                        result_text, hint_text, timers, now, interrupts >>
        /\ UNCHANGED otherThanTask

\* the step of the task, where the arguments it passes are not observed
RouteReturns(t, r, tool_ok) ==
    /\ RouteStep(t, r, tool_ok)
    /\ UNCHANGED requests

\* the same step, with the arguments recorded
RouteReturnsWith(t, r, tool_ok) ==
    LET action == IF r = "fallback"
                  THEN KeywordFallback(pending_tasks[t].msg) ELSE r
    IN  /\ RouteStep(t, r, tool_ok)
        /\ requests' = IF action = "time" THEN requests
                        ELSE requests \cup {Request(t, action)}

\* main.py:209-215, 221-227: llm.ainvoke returns (ok) or raises; either way a
\* reply is appended
ChatReturns(t, ok) ==
    LET task == pending_tasks[t]
    IN  /\ MainSuspended
        /\ task.pc = "llm"
        /\ ReplyAppended(t, IF task.action = "summary"
                            THEN "LLM:summary" ELSE "LLM:chat", ~ok)
        /\ pending_tasks' = [pending_tasks EXCEPT ![t] = [@ EXCEPT !.pc = "done"]]
        /\ UNCHANGED << mainpc, user_input, should_exit, last_ctrl_c_time,
                        buffer, result_text, hint_text, timers, now, display,
                        interrupts >>
        /\ UNCHANGED otherThanLoop

Tasks == 1..Len(pending_tasks)

\* the inputs drawn in Spec
PlainTexts == { <<"h", "i">>, <<" ">> }
PlainOutcomes == {"time", "chat", "summary", "end"}

Next ==
    \/ GetInputStart
    \/ \E t \in PlainTexts : TypeText(t)
    \/ PressEnter(MaxMsgs)
    \/ PressCtrlD
    \/ EndOfInput
    \/ RunAsyncReturns
    \/ AsyncioRunCleanup
    \/ \E t \in Tasks, r \in PlainOutcomes : RouteReturns(t, r, TRUE)
    \/ \E t \in Tasks : ChatReturns(t, TRUE)

Spec == Init /\ [][Next]_vars

NextUI ==
    \/ GetInputStart
    \/ \E t \in TypedTexts : TypeText(t)
    \/ PressEnter(MaxMsgsUI)
    \/ PressCtrlC
    \/ PressCtrlD
    \/ EndOfInput
    \/ \E tm \in timers : ResetHint(tm)
    \/ Tick
    \/ RunAsyncReturns
    \/ AsyncioRunCleanup
    \/ \E t \in Tasks, r \in RouteOutcomes, tool_ok \in BOOLEAN :
           RouteReturns(t, r, tool_ok)
    \/ \E t \in Tasks, ok \in BOOLEAN : ChatReturns(t, ok)

SpecUI == Init /\ [][NextUI]_vars

\* the loop with the arguments of the reply tasks recorded, for up to
\* MaxMsgsArgs messages of different texts; every call succeeds
NextArgs ==
    \/ GetInputStart
    \/ \E t \in TypedTexts : TypeText(t)
    \/ PressEnter(MaxMsgsArgs)
    \/ PressCtrlD
    \/ RunAsyncReturns
    \/ AsyncioRunCleanup
    \/ \E t \in Tasks, r \in RouteOutcomes : RouteReturnsWith(t, r, TRUE)
    \/ \E t \in Tasks : ChatReturns(t, TRUE)

SpecArgs == Init /\ [][NextArgs]_vars

\* the loop with every outcome of the router, the tools and the chat model,
\* for up to MaxMsgsArgs messages
NextOutcomes ==
    \/ GetInputStart
    \/ \E t \in PlainTexts : TypeText(t)
    \/ PressEnter(MaxMsgsArgs)
    \/ PressCtrlD
    \/ RunAsyncReturns
    \/ AsyncioRunCleanup
    \/ \E t \in Tasks, r \in RouteOutcomes, tool_ok \in BOOLEAN :
           RouteReturns(t, r, tool_ok)
    \/ \E t \in Tasks, ok \in BOOLEAN : ChatReturns(t, ok)

SpecOutcomes == Init /\ [][NextOutcomes]_vars

(***************************************************************************)
(* Properties of the interactive loop.                                     *)
(***************************************************************************)
InFlight == { t \in Tasks : pending_tasks[t].pc \in {"routing", "llm"} }

AllCompleted ==
    /\ pending_tasks # <<>>
    /\ \A t \in Tasks : pending_tasks[t].pc = "done"

HistoryOf(role) == SelectSeq(history, LAMBDA m : m.role = role)

InSubmissionOrder(seq) == \A i \in 1..Len(seq) : seq[i].msg = i

Displayed(type) == SelectSeq(display, LAMBDA d : d.type = type)

\* C1: once every reply task has completed, the history holds the N user
\* messages and the N replies, each in submission order (the i-th reply is
\* the reply to the i-th user message).
C1_HistoryInSubmissionOrder ==
    AllCompleted =>
        /\ Len(HistoryOf("user")) = Len(pending_tasks)
        /\ Len(HistoryOf("assistant")) = Len(pending_tasks)
        /\ InSubmissionOrder(HistoryOf("user"))
        /\ InSubmissionOrder(HistoryOf("assistant"))

\* C2: assistant replies are displayed in the order their messages were
\* submitted: a reply is never displayed before the reply to an earlier
\* message.
C2_DisplayInSubmissionOrder ==
    \A i, j \in 1..Len(Displayed("assistant")) :
        i < j => Displayed("assistant")[i].msg < Displayed("assistant")[j].msg

\* C3: nothing is written to the display while the input widget is running.
C3_NoWriteDuringInput ==
    \A i \in 1..Len(display) : ~display[i].during

\* C4: when the process exits, every submitted message has had its reply
\* task run to completion and its reply displayed.
C4_DrainedBeforeExit ==
    mainpc = "done" =>
        \A t \in Tasks :
            /\ pending_tasks[t].pc = "done"
            /\ \E i \in 1..Len(display) :
                   display[i].type = "assistant" /\ display[i].msg = t

\* C5: the step that submits a message queues its reply task and returns to
\* the top of the loop without any task having advanced, and the next step
\* of the loop starts the input widget, whatever is in flight.
C5_NextInputWithoutAwait ==
    [][ /\ (Len(pending_tasks') = Len(pending_tasks) + 1) =>
              /\ mainpc' = "loop"
              /\ \A t \in Tasks : pending_tasks'[t] = pending_tasks[t]
              /\ pending_tasks'[Len(pending_tasks')].pc = "routing"
        /\ (mainpc = "loop") =>
              /\ mainpc' = "widget"
              /\ pending_tasks' = pending_tasks ]_vars

C5_Witness ==
    /\ mainpc = "widget"
    /\ Len(pending_tasks) = MaxMsgs
    /\ Cardinality(InFlight) >= 2

\* the interrupt being pressed in this step falls within the window of the
\* previous interrupt
RepeatedInterrupt ==
    /\ interrupts # <<>>
    /\ interrupts'[Len(interrupts')] - interrupts[Len(interrupts)]
           < CTRL_C_WINDOW * TicksPerSecond

InterruptPressed == Len(interrupts') = Len(interrupts) + 1

\* C6: an interrupt less than the window after the previous interrupt
\* triggers shutdown; any other interrupt does not, and becomes the interrupt
\* against which the next one is measured.
C6_DoubleInterruptWindow ==
    [][ InterruptPressed =>
            IF RepeatedInterrupt
            THEN should_exit' /\ mainpc' = "exiting"
            ELSE /\ should_exit' = should_exit
                 /\ mainpc' = "widget"
                 /\ last_ctrl_c_time' = interrupts'[Len(interrupts')] ]_vars

C6_Witness ==
    /\ Len(interrupts) = 3
    /\ interrupts[2] - interrupts[1] >= CTRL_C_WINDOW * TicksPerSecond
    /\ interrupts[3] - interrupts[2] < CTRL_C_WINDOW * TicksPerSecond
    /\ should_exit
    /\ mainpc = "exiting"

\* C7: an interrupt outside the window of a previous one clears the input
\* text and shows the press-again hint; it does not close the front-end and
\* leaves history, tasks and buffered output as they were.
C7_SingleInterruptFrame ==
    [][ (InterruptPressed /\ ~RepeatedInterrupt) =>
            /\ buffer' = <<>>
            /\ hint_text' = CtrlCHint
            /\ mainpc' = "widget"
            /\ should_exit' = should_exit
            /\ UNCHANGED << history, pending_tasks, pending_outputs,
                            pending_count, display >> ]_vars

C7_Witness ==
    /\ mainpc = "widget"
    /\ hint_text = CtrlCHint
    /\ buffer = <<>>
    /\ Len(interrupts) = 2
    /\ Len(history) = 1
    /\ InFlight # {}

\* C8: a reply task never ends with an unhandled exception: every task that
\* has ended, other than by cancellation at exit, has appended an assistant
\* message for its user message to the history.
C8_ExceptionsBecomeReplies ==
    \A t \in Tasks :
        pending_tasks[t].pc \in {"done", "failed"} =>
            /\ pending_tasks[t].pc = "done"
            /\ \E i \in 1..Len(history) :
                   history[i].role = "assistant" /\ history[i].msg = t

\* the output items of a display, in order (the router's warning is not one)
Items(d) ==
    LET shown == SelectSeq(d, LAMBDA x : x.type # "warning")
    IN  [i \in 1..Len(shown) |->
            [type |-> shown[i].type, msg |-> shown[i].msg,
             tool |-> shown[i].tool, err |-> shown[i].err]]

NoRepeat(seq) == \A i, j \in 1..Len(seq) : seq[i] = seq[j] => i = j

\* C14: the flush at the start of get_input_async follows the flush of the
\* loop body with nothing buffered in between: it finds the buffer empty,
\* displays nothing and changes neither the buffer, the pending count nor the
\* task list.
C14_FlushIdempotent ==
    [][ (mainpc = "loop" /\ mainpc' = "widget") =>
            /\ pending_outputs = <<>>
            /\ display' = display
            /\ pending_outputs' = pending_outputs
            /\ pending_count' = pending_count
            /\ pending_tasks' = pending_tasks ]_vars

C14_Witness ==
    /\ mainpc = "widget"
    /\ Len(pending_tasks) = 2
    /\ InFlight = {}
    /\ Len(Displayed("assistant")) = 1
    /\ Len(pending_outputs) = 1

\* the items added with add_pending_output so far, in the order of adding:
\* every message of the history is added as it is appended (main.py:184-187,
\* 197-198, 202-203, 214-215, 226-227)
Added ==
    [i \in 1..Len(history) |->
        [type |-> history[i].role, msg |-> history[i].msg,
         tool |-> history[i].tool, err |-> history[i].err]]

\* C15: what has been displayed, followed by what is buffered, is the list
\* of the items added, in the order of adding: an item is displayed at most
\* once, in the order of adding, and is out of the buffer once displayed.
C15_FlushedOnceInOrder ==
    /\ Items(display) \o pending_outputs = Added
    /\ NoRepeat(Added)

C15_Witness ==
    /\ \E i \in 1..(Len(display) - 1) :
           /\ display[i].type = "assistant"
           /\ display[i + 1].type = "assistant"
    /\ pending_outputs # <<>>

\* C16: the loop is left only after a run of the input widget that ended
\* with an exit signal (end of input, Ctrl+D, a repeated Ctrl+C): never after
\* a run that ended with the user sending a message.
C16_ClosedOnlyOnExitSignal ==
    mainpc \in {"closed", "done"} => result_text.isNone

(***************************************************************************)
(* Session (apps/app6/session.py).                                         *)
(***************************************************************************)
Max(a, b) == IF a > b THEN a ELSE b
Min(a, b) == IF a < b THEN a ELSE b

\* Python's s[-n:] for a list s and an int n: a negative start counts from
\* the end and is clamped at 0; a start of 0 (n = 0) is the start of the list
SliceFromMinus(s, n) ==
    LET start == IF -n < 0 THEN Max(Len(s) - n, 0) ELSE Min(-n, Len(s))
    IN  SubSeq(s, start + 1, Len(s))

\* session.py:40-44
trim_history(h, limit) ==
    IF Len(h) > limit THEN SliceFromMinus(h, limit) ELSE h

\* a Session is constructed with an empty history and some max_history
SessionInit ==
    /\ session_history = <<>>
    /\ max_history \in 0..MaxHistory
    /\ appended = <<>>

SessionMessage(role) == [role |-> role, content |-> Len(appended) + 1]

\* session.py:26-29
add_user_message ==
    /\ Len(appended) < MaxAppends
    /\ session_history' =
           trim_history(Append(session_history, SessionMessage("user")),
                        max_history)
    /\ appended' = Append(appended, SessionMessage("user"))
    /\ UNCHANGED max_history
    /\ UNCHANGED otherThanSession

\* session.py:31-34
add_assistant_message ==
    /\ Len(appended) < MaxAppends
    /\ session_history' =
           trim_history(Append(session_history, SessionMessage("assistant")),
                        max_history)
    /\ appended' = Append(appended, SessionMessage("assistant"))
    /\ UNCHANGED max_history
    /\ UNCHANGED otherThanSession

NextSession == add_user_message \/ add_assistant_message

InitSession == LoopIdle /\ SessionInit /\ ConsoleIdle /\ RouterIdle /\ CalcIdle
               /\ PipedIdle /\ TuiIdle /\ App4Idle

SpecSession == InitSession /\ [][NextSession]_vars

\* the k most recently appended messages, in the order they were appended
MostRecent(k) == SubSeq(appended, Len(appended) - k + 1, Len(appended))

\* C10: once more than max_history messages have been appended, the stored
\* history is exactly the max_history most recent ones in their original
\* order, and the history is never longer than max_history.
C10_TrimKeepsMostRecent ==
    /\ Len(session_history) <= max_history
    /\ Len(appended) > max_history =>
           session_history = MostRecent(max_history)

(***************************************************************************)
(* The synchronous console loops.                                          *)
(***************************************************************************)
ConsoleApps == {"app3", "app5", "chat03", "tui110"}

ConsoleMsg(role, err) == [role |-> role, turn |-> cturn, err |-> err]

\* app3/main.py:47-49: the history starts with the system message;
\* the other loops start with an empty list
ConsoleInit ==
    /\ capp \in ConsoleApps
    /\ cpc = "input"
    /\ chistory = IF capp = "app3"
                  THEN << [role |-> "system", turn |-> 0, err |-> FALSE] >>
                  ELSE <<>>
    /\ cturn = 0
    /\ ctext = <<>>
    /\ caction = ""
    /\ citer = 0
    /\ cfailed = FALSE
    /\ cend = ""
    /\ amessages = <<>>
    /\ tool_calls_made = <<>>
    /\ areply = NoReply

\* the user leaves the loop at the prompt: app3/main.py:52-60 (interrupt, end
\* of input or an empty line), 110/main.py:144-146 (exit command), the end of
\* the input iterator of app5 (main.py:318) and of 03 (main.py:90)
ConsoleQuit ==
    /\ cpc = "input"
    /\ cpc' = "ended"
    /\ cend' = "quit"
    /\ UNCHANGED << capp, chistory, cturn, ctext, caction, citer, cfailed >>
    /\ UNCHANGED agentVars
    /\ UNCHANGED otherThanConsole

\* the texts typed at a console prompt
ConsoleTexts == { <<"h", "i">>, <<"B", "y", "e">> }

\* a message is read and appended: app3/main.py:53-63, app5/main.py:318-322,
\* 03/main.py:90-96 (Session.add_user_message), 110/main.py:141-152
ConsoleInput(text) ==
    /\ cpc = "input"
    /\ cturn < MaxTurns
    /\ cturn' = cturn + 1
    /\ ctext' = text
    /\ chistory' =
         LET m == [role |-> "user", turn |-> cturn + 1, err |-> FALSE]
         IN  IF capp = "chat03"
             THEN trim_history(Append(chistory, m), DEFAULT_MAX_HISTORY)
             ELSE Append(chistory, m)
    /\ cpc' = IF capp = "app5" THEN "route" ELSE "answer"
    /\ citer' = 0
    /\ caction' = ""
    /\ cfailed' = FALSE
    /\ amessages' = <<>>
    /\ tool_calls_made' = <<>>
    /\ areply' = NoReply
    /\ UNCHANGED << capp, cend >>
    /\ UNCHANGED otherThanConsole

\* app3/main.py:64-65 with stream_answer (25-35): llm.stream is not guarded,
\* an exception leaves main
App3Stream(ok) ==
    /\ capp = "app3"
    /\ cpc = "answer"
    /\ IF ok
       THEN /\ chistory' = Append(chistory, ConsoleMsg("assistant", FALSE))
            /\ cpc' = "input"
            /\ UNCHANGED << cfailed, cend >>
       ELSE /\ cfailed' = TRUE
            /\ cpc' = "ended"
            /\ cend' = "exception"
            /\ UNCHANGED chistory
    /\ UNCHANGED << capp, cturn, ctext, caction, citer >>
    /\ UNCHANGED agentVars
    /\ UNCHANGED otherThanConsole

\* app5/main.py:323-338 with route_intent (79-133): the router never raises;
\* time and end are answered by a tool, end leaves with sys.exit(0)
App5Route(r) ==
    LET action == IF r = "fallback" THEN KeywordFallback(ctext) ELSE r
    IN  /\ capp = "app5"
        /\ cpc = "route"
        /\ caction' = action
        /\ IF action \in {"time", "end"}
           THEN /\ chistory' = Append(chistory, ConsoleMsg("assistant", FALSE))
                /\ cpc' = IF action = "end" THEN "ended" ELSE "input"
                /\ cend' = IF action = "end" THEN "end_chat" ELSE cend
           ELSE /\ cpc' = "answer"
                /\ UNCHANGED << chistory, cend >>
        /\ UNCHANGED << capp, cturn, ctext, citer, cfailed >>
        /\ UNCHANGED agentVars
        /\ UNCHANGED otherThanConsole

\* app5/main.py:340-363: summary and chat catch the exception of llm.invoke
\* and answer with its text
App5Answer(ok) ==
    /\ capp = "app5"
    /\ cpc = "answer"
    /\ cfailed' = ~ok
    /\ chistory' = Append(chistory, ConsoleMsg("assistant", ~ok))
    /\ cpc' = "input"
    /\ UNCHANGED << capp, cturn, ctext, caction, citer, cend >>
    /\ UNCHANGED agentVars
    /\ UNCHANGED otherThanConsole

\* agent.py:183-185: the tools the agent is created with
RegisteredTools == {"get_current_time", "calculate", "get_conversation_stats"}

ToolCall(n, name, runs) == [n |-> n, name |-> name, runs |-> runs]
InvalidCall(n, name, args_none) ==
    [n |-> n, name |-> name, runs |-> "ok", args_none |-> args_none]

\* what llm_with_tools.invoke does (agent.py:81): it raises, or returns a
\* response with tool_calls and invalid_tool_calls.  n is the call's id
\* within the response, runs says whether tool.invoke returns or raises.
AgentResponses ==
    { [raises |-> TRUE, valid |-> <<>>, invalid |-> <<>>] } \cup
    { [raises |-> FALSE, valid |-> r[1], invalid |-> r[2]] : r \in
        { << <<>>, <<>> >>,
          << << ToolCall(1, "calculate", "ok") >>, <<>> >>,
          << << ToolCall(1, "calculate", "raises"),
                ToolCall(2, "search", "ok") >>, <<>> >>,
          << <<>>, << InvalidCall(1, "calculate", FALSE) >> >>,
          << << ToolCall(1, "calculate", "ok") >>,
             << InvalidCall(2, "get_current_time", TRUE),
                InvalidCall(3, "calculate", FALSE) >> >> } }

\* agent.py:85-108: the valid calls, then the invalid calls whose args is
\* None, repaired with empty arguments; the other invalid calls are skipped
all_tool_calls(resp) ==
    LET repaired == SelectSeq(resp.invalid, LAMBDA c : c.args_none)
    IN  resp.valid \o
        [i \in 1..Len(repaired) |->
            ToolCall(repaired[i].n, repaired[i].name, repaired[i].runs)]

\* agent.py:118-123: the AIMessage appended in iteration `iter`
clean_response(resp, iter) ==
    [role |-> "ai", iter |-> iter, calls |-> all_tool_calls(resp),
     response |-> resp, id |-> 0, name |-> "", kind |-> ""]

\* agent.py:134-169: the ToolMessage appended for a call
tool_message(call, iter) ==
    [role |-> "tool", iter |-> iter, calls |-> <<>>,
     response |-> [raises |-> FALSE, valid |-> <<>>, invalid |-> <<>>],
     id |-> call.n, name |-> call.name,
     kind |-> IF call.name \notin RegisteredTools THEN "unknown"
              ELSE IF call.runs = "raises" THEN "exec_error"
              ELSE "result"]

\* tool messages for the calls of registered tools alone
run_tool_calls_known_only(calls, iter) ==
    LET known == SelectSeq(calls, LAMBDA c : c.name \in RegisteredTools)
    IN  [i \in 1..Len(known) |-> tool_message(known[i], iter)]

\* agent.py:125-169: one ToolMessage for each call, in order
run_tool_calls(calls, iter) ==
    [i \in 1..Len(calls) |-> tool_message(calls[i], iter)]

\* agent.py:138: the names of the calls whose tool returned
made_by(calls) ==
    LET done == SelectSeq(calls, LAMBDA c :
                    c.name \in RegisteredTools /\ c.runs = "ok")
    IN  [i \in 1..Len(done) |-> done[i].name]

\* an error reply that keeps the list of the tools called so far
agent_error_reply_with_tools(made) ==
    [text |-> "agent_error", none |-> FALSE, tools |-> made]

\* agent.py:173-175: return f"抱歉，处理请求时出错：{e}", None
agent_error_reply(made) ==
    [text |-> "agent_error", none |-> TRUE, tools |-> <<>>]

\* 03/main.py:98-106 with Agent.chat (app6/agent.py:78-178), one iteration of
\* its tool loop.  The LLM call raises (chat returns the error text and
\* None), answers without tool calls (chat returns the content), or asks for
\* tools (the cleaned response and one tool message for each call are
\* appended, and the loop goes on until max_iterations).  Whatever chat
\* returns is appended to the session as the reply.
Chat03AgentStep(resp) ==
    LET calls == all_tool_calls(resp)
        made == tool_calls_made \o made_by(calls)
        reply(failed) ==
            trim_history(Append(chistory, ConsoleMsg("assistant", failed)),
                         DEFAULT_MAX_HISTORY)
    IN  /\ capp = "chat03"
        /\ cpc = "answer"
        /\ IF resp.raises
           THEN /\ areply' = agent_error_reply(tool_calls_made)
                /\ chistory' = reply(TRUE)
                /\ cfailed' = TRUE
                /\ cpc' = "input"
                /\ UNCHANGED << amessages, tool_calls_made, citer >>
           ELSE IF calls = <<>>
           THEN /\ areply' = [text |-> "content",
                              none |-> (tool_calls_made = <<>>),
                              tools |-> tool_calls_made]
                /\ chistory' = reply(FALSE)
                /\ cfailed' = FALSE
                /\ cpc' = "input"
                /\ UNCHANGED << amessages, tool_calls_made, citer >>
           ELSE /\ amessages' = amessages \o << clean_response(resp, citer) >>
                                    \o run_tool_calls(calls, citer)
                /\ tool_calls_made' = made
                /\ IF citer + 1 < MAX_ITERATIONS
                   THEN /\ citer' = citer + 1
                        /\ UNCHANGED << chistory, cpc, cfailed, areply >>
                   ELSE /\ areply' = [text |-> "too_many", none |-> FALSE,
                                      tools |-> made]
                        /\ chistory' = reply(FALSE)
                        /\ cfailed' = FALSE
                        /\ cpc' = "input"
                        /\ UNCHANGED citer
        /\ UNCHANGED << capp, cturn, ctext, caction, cend >>
        /\ UNCHANGED otherThanConsole

\* 03/main.py:108-110: an interrupt during the turn cancels it
Chat03Interrupt ==
    /\ capp = "chat03"
    /\ cpc = "answer"
    /\ cpc' = "input"
    /\ UNCHANGED << capp, chistory, cturn, ctext, caction, citer, cfailed,
                    cend >>
    /\ UNCHANGED agentVars
    /\ UNCHANGED otherThanConsole

\* 110/main.py:155-180, a step of the model node (call_model, 57-60): the
\* streamed update holds the response alone and replaces messages; an
\* exception of llm.invoke leaves the loop through the handler of 184-185
Tui110ModelStep(ok, tool_calls) ==
    /\ capp = "tui110"
    /\ cpc = "answer"
    /\ IF ok
       THEN /\ chistory' = << ConsoleMsg("assistant", FALSE) >>
            /\ cpc' = IF tool_calls /\ citer < MaxToolRounds
                      THEN "tools" ELSE "input"
            /\ UNCHANGED << cfailed, cend >>
       ELSE /\ cfailed' = TRUE
            /\ cpc' = "ended"
            /\ cend' = "error"
            /\ UNCHANGED chistory
    /\ UNCHANGED << capp, cturn, ctext, caction, citer >>
    /\ UNCHANGED agentVars
    /\ UNCHANGED otherThanConsole

\* 110/main.py:174-180, a step of the tool node: the update holds the tool
\* messages and replaces messages; the model node runs next (line 84)
Tui110ToolStep ==
    /\ capp = "tui110"
    /\ cpc = "tools"
    /\ chistory' = << ConsoleMsg("tool", FALSE) >>
    /\ citer' = citer + 1
    /\ cpc' = "answer"
    /\ UNCHANGED << capp, cturn, ctext, caction, cfailed, cend >>
    /\ UNCHANGED agentVars
    /\ UNCHANGED otherThanConsole

NextConsole ==
    \/ ConsoleQuit
    \/ \E text \in ConsoleTexts : ConsoleInput(text)
    \/ \E ok \in BOOLEAN : App3Stream(ok)
    \/ \E r \in RouteOutcomes : App5Route(r)
    \/ \E ok \in BOOLEAN : App5Answer(ok)
    \/ \E resp \in AgentResponses : Chat03AgentStep(resp)
    \/ Chat03Interrupt
    \/ \E ok \in BOOLEAN, tool_calls \in BOOLEAN : Tui110ModelStep(ok, tool_calls)
    \/ Tui110ToolStep

InitConsole == LoopIdle /\ SessionIdle /\ ConsoleInit /\ RouterIdle /\ CalcIdle
               /\ PipedIdle /\ TuiIdle /\ App4Idle

SpecConsole == InitConsole /\ [][NextConsole]_vars

\* C9: in every console loop a chat-client failure during a turn never ends
\* the session: the loop is not left because of it, and when the turn is over
\* the history ends with the error message of that turn.
C9_ChatFailureKeepsSession ==
    /\ cend \notin {"exception", "error"}
    /\ (cfailed /\ cpc = "input") =>
           /\ chistory # <<>>
           /\ chistory[Len(chistory)] = ConsoleMsg("assistant", TRUE)

\* C17: in the 03 loop, whenever an iteration has finished, the history
\* alternates user message, assistant message, one reply after every user
\* message.
C17_HistoryAlternates ==
    (capp = "chat03" /\ cpc \in {"input", "ended"}) =>
        /\ Len(chistory) % 2 = 0
        /\ \A i \in 1..Len(chistory) :
               chistory[i].role = IF i % 2 = 1 THEN "user" ELSE "assistant"

\* the calls Agent.chat takes from a response: the valid ones and the
\* invalid ones with null arguments
TakenCalls(resp) ==
    resp.valid \o SelectSeq(resp.invalid, LAMBDA c : c.args_none)

\* the tool message the call must be answered with
ExpectedKind(call) ==
    IF call.name \notin RegisteredTools THEN "unknown"
    ELSE IF call.runs = "raises" THEN "exec_error"
    ELSE "result"

\* C19: whenever the LLM is about to be invoked again (and when chat has
\* returned), every response with tool calls in the message list is followed
\* at once by one tool message for each call taken from it, carrying the
\* call's id, name and the result, the execution error or the unknown-tool
\* text; and chat returns its error reply only when the LLM call itself
\* failed.
C19_OneToolMessagePerCall ==
    /\ \A p \in 1..Len(amessages) :
           amessages[p].role = "ai" =>
               LET calls == TakenCalls(amessages[p].response)
               IN  /\ calls # <<>>
                   /\ p + Len(calls) <= Len(amessages)
                   /\ \A k \in 1..Len(calls) :
                          /\ amessages[p + k].role = "tool"
                          /\ amessages[p + k].id = calls[k].n
                          /\ amessages[p + k].name = calls[k].name
                          /\ amessages[p + k].kind = ExpectedKind(calls[k])
                   /\ (p + Len(calls) < Len(amessages) =>
                          amessages[p + Len(calls) + 1].role = "ai")
    /\ (amessages # <<>> => amessages[1].role = "ai")
    /\ (areply.text = "agent_error" => cfailed)

C19_Witness ==
    /\ capp = "chat03"
    /\ cpc = "answer"
    /\ \E p, q, r \in 1..Len(amessages) :
           /\ amessages[p].kind = "unknown"
           /\ amessages[q].kind = "exec_error"
           /\ amessages[r].kind = "result"
           /\ amessages[r].name = "get_current_time"

\* C20: when an LLM invocation of Agent.chat fails, at whatever iteration,
\* chat returns the error text with no tool list, and the 03 loop appends one
\* assistant message for the turn and goes on to the next input.
C20_AgentFailureIsAReply ==
    [][ (capp = "chat03" /\ cpc = "answer" /\ cfailed') =>
            /\ areply' = [text |-> "agent_error", none |-> TRUE,
                          tools |-> <<>>]
            /\ chistory' = Append(chistory, ConsoleMsg("assistant", TRUE))
            /\ cpc' = "input"
            /\ cend' = "" ]_vars

C20_Witness ==
    /\ capp = "chat03"
    /\ cpc = "input"
    /\ cfailed
    /\ citer = MAX_ITERATIONS - 1
    /\ tool_calls_made # <<>>
    /\ areply.text = "agent_error"
    /\ cturn = 2
    /\ chistory[2] = [role |-> "assistant", turn |-> 1, err |-> TRUE]

(***************************************************************************)
(* The intent router: route_intent_async (apps/app6/router.py:44-94) and   *)
(* its synchronous twin route_intent (apps/app5/main.py:79-133).           *)
(*                                                                         *)
(* The content of the chat model's reply is a sequence of tokens: "{",     *)
(* "}", ",", a key with its colon ("k:action", "k:reason", "k:meta"), a    *)
(* quoted string ("time", "chat", "summary", "end", "dance", and "a}b",    *)
(* a string with a closing brace in it) or a run of prose ("txt").         *)
(***************************************************************************)
JsonKeys == {"k:action", "k:reason", "k:meta"}
JsonStrings == {"time", "chat", "summary", "end", "dance", "a}b"}

\* router.py:76
ClosedActions == {"time", "chat", "summary", "end"}

\* the token has the character } in it
HasCloseBrace(tok) == tok \in {"}", "a}b"}

\* the position of the first token after position i with a } in it, or 0
FirstClose(s, i) ==
    LET later == { j \in (i + 1)..Len(s) : HasCloseBrace(s[j]) }
    IN  IF later = {} THEN 0
        ELSE CHOOSE j \in later : \A k \in later : j <= k

\* router.py:71, re.search(r'\{[^}]+\}', content): the leftmost { that is
\* followed by at least one character other than } and then by a }.  The
\* match ends at the first } after the {, wherever that } is: `cut` says
\* that it is inside a string, so that the match ends in the middle of it.
RegexSearch(s) ==
    LET starts == { i \in 1..Len(s) :
                      /\ s[i] = "{"
                      /\ FirstClose(s, i) # 0
                      /\ ~(FirstClose(s, i) = i + 1 /\ s[i + 1] = "}") }
    IN  IF starts = {}
        THEN [found |-> FALSE, text |-> <<>>, cut |-> FALSE]
        ELSE LET i == CHOOSE k \in starts : \A m \in starts : k <= m
                 j == FirstClose(s, i)
             IN  [found |-> TRUE, text |-> SubSeq(s, i, j),
                  cut |-> s[j] # "}"]

\* json.loads on the members of a matched text (the tokens between its
\* braces).  The text has no } before its end, so a { among the members never
\* closes: every value is a string.  acc is the value of "action" so far
\* ("" while the key has not been seen); a repeated key keeps the last value.
RECURSIVE JsonMembers(_, _)
JsonMembers(m, acc) ==
    IF Len(m) < 2 \/ m[1] \notin JsonKeys \/ m[2] \notin JsonStrings
    THEN [ok |-> FALSE, action |-> ""]
    ELSE LET now_acc == IF m[1] = "k:action" THEN m[2] ELSE acc
         IN  IF Len(m) = 2 THEN [ok |-> TRUE, action |-> now_acc]
             ELSE IF m[3] = "," THEN JsonMembers(SubSeq(m, 4, Len(m)), now_acc)
             ELSE [ok |-> FALSE, action |-> ""]

\* router.py:73: json.loads(json_match.group()); it raises on invalid JSON
JsonLoads(match) ==
    IF match.cut THEN [ok |-> FALSE, action |-> ""]
    ELSE JsonMembers(SubSeq(match.text, 2, Len(match.text) - 1), "")

\* router.py:66-80: the action the try block returns, or "" when it falls
\* through to the keyword fallback (the call raised, nothing matched,
\* json.loads raised, or the action is not one of the four).  Line 74,
\* data.get("action", "chat"): an object without the key counts as chat.
LlmDecision(reply) ==
    IF reply.raises THEN ""
    ELSE LET match == RegexSearch(reply.content)
             data == JsonLoads(match)
             action == IF data.action = "" THEN "chat" ELSE data.action
         IN  IF match.found /\ data.ok /\ action \in ClosedActions
             THEN action ELSE ""

\* the replies of the chat model the router is run on
RouterReplies ==
    { [raises |-> TRUE, content |-> <<>>] } \cup
    { [raises |-> FALSE, content |-> c] : c \in
        { << "txt" >>,
          << "{", "}" >>,
          << "{", "k:action", "time", "}" >>,
          << "txt", "{", "k:action", "end", ",", "k:reason", "chat", "}", "txt" >>,
          << "{", "k:action", "dance", "}" >>,
          << "{", "k:reason", "dance", "}" >>,
          << "{", "k:action", "time" >>,
          << "{", "k:action", "}" >>,
          << "{", "k:action", "chat", "}", "{", "k:action", "end", "}" >>,
          << "{", "txt", "}", "{", "k:action", "time", "}" >>,
          << "{", "k:action", "time", ",", "k:meta", "{", "k:reason", "chat",
             "}", "}" >>,
          << "{", "k:meta", "{", "k:action", "end", "}", ",", "k:action",
             "summary", "}" >>,
          << "{", "k:reason", "a}b", ",", "k:action", "summary", "}" >>,
          << "{", "k:action", "end", ",", "k:reason", "a}b", "}" >> } }

\* the user texts the router is run on
RouterTexts ==
    { << "h", "i" >>,
      << "xian", "zai", "ji", "dian" >>,
      << "xian", "zai", "ji", "dian", "?" >>,
      << "gai", "kuo", "yi", "xia" >>,
      << "B", "Y", "E" >>,
      << "b", "y", "e" >>,
      << "zai", "jian", "zong", "jie", "dui", "hua" >> }

RouterInit ==
    /\ rpc = "call"
    /\ rreply \in RouterReplies
    /\ rtext \in RouterTexts
    /\ raction = "chat"
    /\ rwarned = FALSE

\* router.py:44-94: one call of route_intent_async(llm, user_text, history)
RouteIntent ==
    /\ rpc = "call"
    /\ rpc' = "returned"
    /\ IF LlmDecision(rreply) # ""
       THEN /\ raction' = LlmDecision(rreply)
            /\ rwarned' = FALSE
       ELSE /\ raction' = KeywordFallback(rtext)
            /\ rwarned' = TRUE
    /\ UNCHANGED << rreply, rtext >>
    /\ UNCHANGED otherThanRouter

NextRouter == RouteIntent

InitRouter == LoopIdle /\ SessionIdle /\ ConsoleIdle /\ RouterInit /\ CalcIdle
              /\ PipedIdle /\ TuiIdle /\ App4Idle

SpecRouter == InitRouter /\ [][NextRouter]_vars

(***************************************************************************)
(* Properties of the router.                                               *)
(***************************************************************************)
\* the position of the } that closes a { when the scan is at position j with
\* `depth` braces open, or 0; a brace inside a string is part of the string
RECURSIVE ScanClose(_, _, _)
ScanClose(s, j, depth) ==
    IF j > Len(s) THEN 0
    ELSE IF s[j] = "{" THEN ScanClose(s, j + 1, depth + 1)
    ELSE IF s[j] = "}"
         THEN IF depth = 1 THEN j ELSE ScanClose(s, j + 1, depth - 1)
    ELSE ScanClose(s, j + 1, depth)

\* the first balanced { ... } of a content, or << >>
FirstBalancedObject(s) ==
    LET starts == { i \in 1..Len(s) : s[i] = "{" /\ ScanClose(s, i + 1, 1) # 0 }
    IN  IF starts = {} THEN <<>>
        ELSE LET i == CHOOSE k \in starts : \A m \in starts : k <= m
             IN  SubSeq(s, i, ScanClose(s, i + 1, 1))

\* the members of a JSON object whose values are strings or objects: whether
\* they are well formed, and the value of the top-level "action" ("" when
\* the key is absent, "object" when its value is an object)
RECURSIVE BalancedMembers(_, _)
BalancedMembers(m, acc) ==
    IF Len(m) < 2 \/ m[1] \notin JsonKeys
    THEN [ok |-> FALSE, action |-> ""]
    ELSE LET close == IF m[2] = "{" THEN ScanClose(m, 3, 1) ELSE 2
             inner == SubSeq(m, 3, close - 1)
             value_ok ==
                 \/ m[2] \in JsonStrings
                 \/ /\ m[2] = "{"
                    /\ close # 0
                    /\ (inner = <<>> \/ BalancedMembers(inner, "").ok)
             value == IF m[2] = "{" THEN "object" ELSE m[2]
             now_acc == IF m[1] = "k:action" THEN value ELSE acc
         IN  IF ~value_ok THEN [ok |-> FALSE, action |-> ""]
             ELSE IF Len(m) = close THEN [ok |-> TRUE, action |-> now_acc]
             ELSE IF m[close + 1] = ","
                  THEN BalancedMembers(SubSeq(m, close + 2, Len(m)), now_acc)
             ELSE [ok |-> FALSE, action |-> ""]

\* the action of the first balanced JSON object of a reply when that object
\* is valid JSON and its action is one of the closed set, and "" otherwise
ActionOfFirstObject(reply) ==
    LET obj == FirstBalancedObject(reply.content)
        data == BalancedMembers(SubSeq(obj, 2, Len(obj) - 1), "")
    IN  IF ~reply.raises /\ Len(obj) > 2 /\ data.ok
           /\ data.action \in ClosedActions
        THEN data.action ELSE ""

\* C11: a reply holding a valid JSON object whose action is in the closed
\* set makes the router return that action without a warning; every other
\* reply (none, invalid JSON, another action, a failed call) makes it return
\* the keyword fallback and print the warning.
C11_RouterDecision ==
    rpc = "returned" =>
        IF ActionOfFirstObject(rreply) # ""
        THEN raction = ActionOfFirstObject(rreply) /\ ~rwarned
        ELSE raction = KeywordFallback(rtext) /\ rwarned

ContainsAny(text, keywords) == \E k \in keywords : Contains(text, k)

\* C12 as stated: on a fallback the action is time exactly for a time
\* phrase, else summary for a text containing a summary keyword, else end
\* for a text containing an end keyword, else chat.
C12_FallbackAsStated ==
    (rpc = "returned" /\ rwarned) =>
        raction = IF rtext \in TimePhrases THEN "time"
                  ELSE IF ContainsAny(rtext, SummaryKeywords) THEN "summary"
                  ELSE IF ContainsAny(rtext, EndKeywords) THEN "end"
                  ELSE "chat"

\* C12, amended: the same with the keywords looked for in the text without
\* regard to letter case; the action is always one of the closed set.
C12_FallbackIgnoringCase ==
    (rpc = "returned" /\ rwarned) =>
        /\ raction = IF rtext \in TimePhrases THEN "time"
                     ELSE IF ContainsAny(Lower(rtext), SummaryKeywords)
                          THEN "summary"
                     ELSE IF ContainsAny(Lower(rtext), EndKeywords) THEN "end"
                     ELSE "chat"
        /\ raction \in ClosedActions

C12_Witness ==
    /\ rpc = "returned"
    /\ rwarned
    /\ rtext = << "B", "Y", "E" >>
    /\ raction = "end"

\* the first balanced object of the reply has an object among its values or
\* a closing brace inside a string
NestedOrBraceInString(reply) ==
    LET obj == FirstBalancedObject(reply.content)
    IN  /\ Len(obj) > 2
        /\ \E i \in 2..(Len(obj) - 1) : obj[i] \in {"{", "a}b"}

\* C13: when the first JSON object of the reply holds a nested object or a
\* closing brace inside a string, the whole balanced object is parsed and its
\* action is the one returned.
C13_BalancedObjectParsed ==
    (rpc = "returned" /\ NestedOrBraceInString(rreply)
        /\ ActionOfFirstObject(rreply) # "") =>
            raction = ActionOfFirstObject(rreply)

(***************************************************************************)
(* The calculator tools: calculate (apps/03-interactive-chat-trich/        *)
(* tools.py:33-60), calculator (libs/m-tools/src/m_tools/common.py:33-51)  *)
(* and calc (apps/app4/main.py:19-27).                                     *)
(*                                                                         *)
(* An expression is a sequence of tokens separated by blanks: the numbers  *)
(* "0", "1", "2", the operators "+" and "/", the names "pi" (a name of     *)
(* the math module) and "x" (no name of it), the string literal "'a'" and  *)
(* the character "$".                                                      *)
(***************************************************************************)
CalcNumbers == {"0", "1", "2"}
CalcOperators == {"+", "/"}
CalcNames == {"pi", "x"}
CalcStrings == {"'a'"}
CalcTokens == CalcNumbers \cup CalcOperators \cup CalcNames \cup CalcStrings
                  \cup {"$"}
CalcAtoms == CalcNumbers \cup CalcNames \cup CalcStrings

\* tools.py:52-53: every character of the token is one of "0123456789+-*/(). "
AllowedChars(tok) == tok \in CalcNumbers \cup CalcOperators

\* app4/main.py:22: the public names of the math module
MathNames == {"pi"}

\* compile(): the tokens form  {+} atom { (+ | /) {+} atom }  ; an empty
\* text, a "$", a misplaced operator or two atoms in a row is a SyntaxError
RECURSIVE SyntaxOK(_, _, _)
SyntaxOK(e, i, operand_next) ==
    IF i > Len(e) THEN ~operand_next
    ELSE IF operand_next
         THEN \/ e[i] = "+" /\ SyntaxOK(e, i + 1, TRUE)
              \/ e[i] \in CalcAtoms /\ SyntaxOK(e, i + 1, FALSE)
         ELSE e[i] \in CalcOperators /\ SyntaxOK(e, i + 1, TRUE)

\* the value of an atom in a namespace: "zero", "pos" (a number other than
\* zero), "str", or "err" (NameError)
AtomValue(tok, names) ==
    IF tok = "0" THEN "zero"
    ELSE IF tok \in CalcNumbers THEN "pos"
    ELSE IF tok \in CalcStrings THEN "str"
    ELSE IF tok \in names THEN "pos"
    ELSE "err"

\* a + b: TypeError for a string and a number
Add(a, b) ==
    IF a = "none" THEN b
    ELSE IF a = "err" \/ b = "err" THEN "err"
    ELSE IF a = "str" /\ b = "str" THEN "str"
    ELSE IF a = "str" \/ b = "str" THEN "err"
    ELSE IF a = "zero" /\ b = "zero" THEN "zero"
    ELSE "pos"

\* a / b: TypeError for a string, ZeroDivisionError for a zero divisor
Div(a, b) ==
    IF a \in {"err", "str"} \/ b \in {"err", "str", "zero"} THEN "err"
    ELSE a

\* evaluation of a well-formed expression from token i on: acc is the sum of
\* the terms before the current one, term the current term, op the binary
\* operator before the operand to come, unary says that a unary + is
\* applied to it (TypeError on a string)
RECURSIVE EvalFrom(_, _, _, _, _, _, _)
EvalFrom(e, i, names, acc, term, op, unary) ==
    IF e[i] = "+"
    THEN EvalFrom(e, i + 1, names, acc, term, op, TRUE)
    ELSE LET atom == AtomValue(e[i], names)
             v == IF unary /\ atom = "str" THEN "err" ELSE atom
             acc2 == IF op = "+" THEN Add(acc, term) ELSE acc
             term2 == IF op = "/" THEN Div(term, v) ELSE v
         IN  IF i = Len(e) THEN Add(acc2, term2)
             ELSE EvalFrom(e, i + 2, names, acc2, term2, e[i + 1], FALSE)

\* eval(expression, {"__builtins__": {}}, names): "value" when it returns,
\* "error" when it raises an Exception (SyntaxError, NameError, TypeError,
\* ZeroDivisionError)
Eval(e, names) ==
    IF ~SyntaxOK(e, 1, TRUE) THEN "error"
    ELSE IF EvalFrom(e, 1, names, "none", "none", "", FALSE) = "err"
         THEN "error"
    ELSE "value"

CalcResult(kind, evaluated) ==
    [kind |-> kind, evaluated |-> evaluated, raised |-> FALSE]

\* tools.py:50-60
calculate(expression) ==
    IF \E i \in 1..Len(expression) : ~AllowedChars(expression[i])
    THEN CalcResult("error", FALSE)
    ELSE CalcResult(Eval(expression, {}), TRUE)

\* common.py:43-51: every expression is handed to eval
calculator(expression) == CalcResult(Eval(expression, {}), TRUE)

\* app4/main.py:22-27: every expression is handed to eval, with the names of
\* the math module
calc(expression) == CalcResult(Eval(expression, MathNames), TRUE)

RECURSIVE SeqsUpTo(_, _)
SeqsUpTo(S, n) ==
    IF n = 0 THEN { <<>> }
    ELSE LET shorter == SeqsUpTo(S, n - 1)
         IN  shorter \cup { Append(q, x) : q \in shorter, x \in S }

CalcInit ==
    /\ kpc = "call"
    /\ ktool \in {"calculate", "calculator", "calc"}
    /\ kexpr \in SeqsUpTo(CalcTokens, MaxExprLen)
    /\ kresult = [kind |-> "none", evaluated |-> FALSE, raised |-> FALSE]

\* one call of the tool
CalcInvoke ==
    /\ kpc = "call"
    /\ kpc' = "returned"
    /\ kresult' = CASE ktool = "calculate" -> calculate(kexpr)
                    [] ktool = "calculator" -> calculator(kexpr)
                    [] OTHER -> calc(kexpr)
    /\ UNCHANGED << ktool, kexpr >>
    /\ UNCHANGED otherThanCalc

NextCalc == CalcInvoke

InitCalc == LoopIdle /\ SessionIdle /\ ConsoleIdle /\ RouterIdle /\ CalcInit
            /\ PipedIdle /\ TuiIdle /\ App4Idle

SpecCalc == InitCalc /\ [][NextCalc]_vars

\* what the tool's description lets an expression be made of: numbers and
\* operators, and for calc the names of the math module
InAllowList(tok, tool) ==
    \/ tok \in CalcNumbers \cup CalcOperators
    \/ tool = "calc" /\ tok \in MathNames

\* C18: a calculator hands no expression with a character or name outside
\* its allow-list to eval and answers it with an error string, and no call
\* ends with an exception.
C18_CalculatorRejects ==
    kpc = "returned" =>
        /\ ~kresult.raised
        /\ kresult.kind \in {"value", "error"}
        /\ (\E i \in 1..Len(kexpr) : ~InAllowList(kexpr[i], ktool)) =>
               (~kresult.evaluated /\ kresult.kind = "error")

(***************************************************************************)
(* app6 with piped standard input (main.py:150-170) and its                *)
(* AsyncChatSession (main.py:60-129).                                      *)
(***************************************************************************)
\* number of lines on standard input
MaxLines == 3

\* main.py:151: the lines of standard input, stripped, without the blank ones
RECURSIVE PipedLines(_)
PipedLines(stdin) ==
    IF stdin = <<>> THEN <<>>
    ELSE IF Strip(Head(stdin)) # <<>>
         THEN <<Strip(Head(stdin))>> \o PipedLines(Tail(stdin))
         ELSE PipedLines(Tail(stdin))

PipedInit ==
    /\ ppc = "for"
    /\ interactive \in BOOLEAN
    /\ piped_lines \in
           { PipedLines(stdin) : stdin \in SeqsUpTo(TypedTexts, MaxLines) }
    /\ line_no = 0
    /\ s_history = <<>>
    /\ s_tasks = <<>>
    /\ s_should_exit = FALSE
    /\ s_pending_count = 0
    /\ s_display = <<>>

SessionPrinted(type, t, tool, err) ==
    Printed([type |-> type, msg |-> t, tool |-> tool, err |-> err], FALSE)

\* main.py:157-158 with 70-81 and 125-129: process_input echoes the line,
\* appends it and creates the task; wait_all_pending takes the task off the
\* deque and awaits it
ProcessInput ==
    /\ ppc = "for"
    /\ line_no < Len(piped_lines)
    /\ line_no' = line_no + 1
    /\ s_display' = Append(s_display,
                           SessionPrinted("user", line_no + 1, "", FALSE))
    /\ s_history' = Append(s_history, UserMsg(line_no + 1))
    /\ s_tasks' = Append(s_tasks, [msg |-> piped_lines[line_no + 1],
                                   pc |-> "routing", action |-> ""])
    /\ s_pending_count' = update_pending(s_pending_count, 1)
    /\ ppc' = "wait"
    /\ UNCHANGED << interactive, piped_lines, s_should_exit >>
    /\ UNCHANGED << loopVars, otherThanPiped >>

\* main.py:83-123 up to the next await: the router's call returns with
\* outcome r and the branch of the action runs; tool_ok says whether
\* tool.invoke returns or raises
HandleResponseRouted(t, r, tool_ok) ==
    LET task == s_tasks[t]
        action == IF r = "fallback" THEN KeywordFallback(task.msg) ELSE r
        tool == IF action = "time" THEN "get_current_time" ELSE "end_chat"
        warned == IF r = "fallback"
                  THEN Append(s_display,
                              SessionPrinted("warning", t, "", FALSE))
                  ELSE s_display
    IN  /\ ppc = "wait"
        /\ task.pc = "routing"
        /\ IF action \in {"time", "end"}
           THEN IF tool_ok
                THEN /\ s_history' = Append(s_history,
                                            AssistantMsg(t, tool, FALSE))
                     /\ s_display' = Append(warned,
                            SessionPrinted("assistant", t, tool, FALSE))
                     /\ s_should_exit' = (s_should_exit \/ action = "end")
                     /\ s_pending_count' = update_pending(s_pending_count, -1)
                     /\ s_tasks' = [s_tasks EXCEPT ![t] =
                            [@ EXCEPT !.pc = "done", !.action = action]]
                ELSE \* the exception leaves the task through finally
                     /\ s_display' = warned
                     /\ s_pending_count' = update_pending(s_pending_count, -1)
                     /\ s_tasks' = [s_tasks EXCEPT ![t] =
                            [@ EXCEPT !.pc = "failed", !.action = action]]
                     /\ UNCHANGED << s_history, s_should_exit >>
           ELSE /\ tool_ok
                /\ s_display' = warned
                /\ s_tasks' = [s_tasks EXCEPT ![t] =
                       [@ EXCEPT !.pc = "llm", !.action = action]]
                /\ UNCHANGED << s_history, s_should_exit, s_pending_count >>
        /\ UNCHANGED << ppc, interactive, piped_lines, line_no >>
        /\ UNCHANGED << loopVars, otherThanPiped >>

\* main.py:104-113, 115-126: llm.ainvoke returns (ok) or raises; either way
\* a reply is appended and printed
HandleResponseAnswered(t, ok) ==
    LET task == s_tasks[t]
        tool == IF task.action = "summary" THEN "LLM:summary" ELSE "LLM:chat"
    IN  /\ ppc = "wait"
        /\ task.pc = "llm"
        /\ s_history' = Append(s_history, AssistantMsg(t, tool, ~ok))
        /\ s_display' = Append(s_display,
                               SessionPrinted("assistant", t, tool, ~ok))
        /\ s_pending_count' = update_pending(s_pending_count, -1)
        /\ s_tasks' = [s_tasks EXCEPT ![t] = [@ EXCEPT !.pc = "done"]]
        /\ UNCHANGED << ppc, interactive, piped_lines, line_no,
                        s_should_exit >>
        /\ UNCHANGED << loopVars, otherThanPiped >>

\* `await task` returning to its caller without the task having finished
AwaitReturnsAtOnce(task) == TRUE

\* main.py:129: `await task` returns once the task has finished
AwaitReturns(task) == task.pc \in {"done", "failed"}

\* main.py:158-161: wait_all_pending returns, or the exception of the task
\* is raised out of `await task` and leaves async_main
WaitAllPendingReturns ==
    /\ ppc = "wait"
    /\ AwaitReturns(s_tasks[line_no])
    /\ ppc' = IF s_tasks[line_no].pc = "failed" THEN "crashed"
              ELSE IF s_should_exit THEN "returned"
              ELSE "for"
    /\ UNCHANGED << interactive, piped_lines, line_no, s_history, s_tasks,
                    s_should_exit, s_pending_count, s_display >>
    /\ UNCHANGED << loopVars, otherThanPiped >>

\* a program that goes on to the interactive loop whatever the flag
AfterPipeAlways(flag) == "interactive"

\* main.py:166-167
AfterPipe(flag) == IF flag THEN "interactive" ELSE "returned"

\* main.py:163-175: the piped lines are exhausted; the interactive loop is
\* given the history of the session
PipedExhausted ==
    /\ ppc = "for"
    /\ line_no = Len(piped_lines)
    /\ ppc' = AfterPipe(interactive)
    /\ history' = s_history
    /\ UNCHANGED << mainpc, pending_tasks, user_input, pending_count,
                    should_exit, last_ctrl_c_time, pending_outputs, buffer,
                    result_text, hint_text, timers, now, display, interrupts >>
    /\ UNCHANGED << interactive, piped_lines, line_no, s_history, s_tasks,
                    s_should_exit, s_pending_count, s_display >>
    /\ UNCHANGED otherThanPiped

\* main.py:177-179: the interactive loop asks for its first input
InteractiveInput ==
    /\ ppc = "interactive"
    /\ GetInputStart

NextPiped ==
    \/ ProcessInput
    \/ \E t \in 1..Len(s_tasks), r \in RouteOutcomes, tool_ok \in BOOLEAN :
           HandleResponseRouted(t, r, tool_ok)
    \/ \E t \in 1..Len(s_tasks), ok \in BOOLEAN : HandleResponseAnswered(t, ok)
    \/ WaitAllPendingReturns
    \/ PipedExhausted
    \/ InteractiveInput

InitPiped == LoopInit /\ SessionIdle /\ ConsoleIdle /\ RouterIdle /\ CalcIdle
             /\ PipedInit /\ TuiIdle /\ App4Idle

SpecPiped == InitPiped /\ [][NextPiped]_vars

(***************************************************************************)
(* Properties of the piped mode.                                           *)
(***************************************************************************)
SessionFailed == \E t \in 1..Len(s_tasks) : s_tasks[t].pc = "failed"

\* C21 as stated: with piped input the interactive loop is entered exactly
\* when -i was given: without the flag the program exits after the piped
\* lines, with the flag it always goes on to the interactive loop, which is
\* given the history of the piped conversation.
C21_InteractiveIffFlag ==
    /\ ppc = "interactive" => interactive /\ history = s_history
    /\ mainpc = "widget" => ppc = "interactive"
    /\ ppc \in {"returned", "crashed"} => ~interactive

\* C21: with piped input the interactive loop is entered only when -i was
\* given, after every piped line has been answered, and it is given the
\* history of the piped conversation.  The program exits without entering
\* it when the flag is absent and the lines are exhausted, when a line was
\* classified end (whatever the flag), or when a reply task raised.
C21_InteractiveUnlessEnded ==
    /\ ppc = "interactive" =>
           /\ interactive
           /\ ~s_should_exit
           /\ line_no = Len(piped_lines)
           /\ \A t \in 1..Len(s_tasks) : s_tasks[t].pc = "done"
           /\ history = s_history
    /\ mainpc = "widget" => ppc = "interactive"
    /\ ppc = "returned" =>
           \/ s_should_exit
           \/ ~interactive /\ line_no = Len(piped_lines)
    /\ ppc = "crashed" => SessionFailed

\* two piped lines have been answered and the first input widget of the
\* interactive loop is shown
C21_Witness ==
    /\ ppc = "interactive"
    /\ mainpc = "widget"
    /\ Len(history) = 4

(***************************************************************************)
(* route_intent of apps/app4/main.py: structured output, then keywords.    *)
(***************************************************************************)
\* main.py:130-136: the keywords of each action.  计 is written "ji4" to keep
\* it apart from 几 ("ji").
\*   time    ["时间", "几点", "am", "pm", "上午", "下午"]
\*   calc    ["算", "计算", "+", "-", "*", "/"]
\*   summary ["总结", "概括", "summary"]
\*   end     ["结束", "退出", "bye", "再见"]
App4Keywords ==
    [ time |-> { <<"shi", "jian">>, <<"ji", "dian">>, <<"a", "m">>,
                 <<"p", "m">>, <<"shang", "wu">>, <<"xia", "wu">> },
      calc |-> { <<"suan">>, <<"ji4", "suan">>, <<"+">>, <<"-">>, <<"*">>,
                 <<"/">> },
      summary |-> { <<"zong", "jie">>, <<"gai", "kuo">>,
                    <<"s", "u", "m", "m", "a", "r", "y">> },
      end |-> { <<"jie", "shu">>, <<"tui", "chu">>, <<"b", "y", "e">>,
                <<"zai", "jian">> } ]

\* main.py:128-137: the keyword fallback, entered with action = "chat"
App4Fallback(user_text) ==
    LET lower == Lower(user_text)
        any(action) == \E k \in App4Keywords[action] : Contains(lower, k)
    IN  IF any("time") THEN "time"
        ELSE IF any("calc") THEN "calc"
        ELSE IF any("summary") THEN "summary"
        ELSE IF any("end") THEN "end"
        ELSE "chat"

\* what parser_llm.invoke does: raises, or returns a decision
\* (main.py:97: one of the five actions)
App4Decisions ==
    {[raises |-> TRUE, action |-> "chat"]}
        \cup { [raises |-> FALSE, action |-> a] :
                   a \in {"time", "calc", "summary", "end", "chat"} }

\* the user texts of the model
App4Texts ==
    { <<"h", "i">>, <<"ji", "dian", "le">>, <<"1", "+", "1">>,
      <<"suan", "shi", "jian">>, <<"zong", "jie">>, <<"zong", "jie", "shu">>,
      <<"B", "y", "e">>, <<"zai", "jian">>, <<"ji4", "suan">>,
      <<"xia", "wu", "hao">> }

\* main.py:104-139: the action route_intent returns.  A decision is returned
\* as it is (line 120); the keywords are reached only from the except clause
route_intent(decision, user_text) ==
    IF ~decision.raises THEN decision.action ELSE App4Fallback(user_text)

App4Init ==
    /\ r4pc = "call"
    /\ r4decision \in App4Decisions
    /\ r4text \in App4Texts
    /\ r4action = "chat"

App4RouteIntent ==
    /\ r4pc = "call"
    /\ r4action' = route_intent(r4decision, r4text)
    /\ r4pc' = "returned"
    /\ UNCHANGED << r4decision, r4text >>
    /\ UNCHANGED otherThanApp4

InitApp4 == LoopIdle /\ SessionIdle /\ ConsoleIdle /\ RouterIdle /\ CalcIdle
            /\ PipedIdle /\ TuiIdle /\ App4Init

SpecApp4 == InitApp4 /\ [][App4RouteIntent]_vars

\* the text contains one of the keywords of the fallback
HasApp4Keyword(text) ==
    \E a \in DOMAIN App4Keywords :
        \E k \in App4Keywords[a] : Contains(Lower(text), k)

\* C24: when the structured call failed or returned chat, a text that
\* contains a time, calc, summary or end keyword is routed to the action of
\* that keyword and not to chat.
C24_KeywordsOverrideChat ==
    r4pc = "returned" /\ (r4decision.raises \/ r4decision.action = "chat")
        /\ HasApp4Keyword(r4text)
    => r4action # "chat" /\ r4action = App4Fallback(r4text)

(***************************************************************************)
(* ChatTUI (apps/app6/tui.py): the Enter binding and set_waiting.  The      *)
(* on_submit callback is set.                                              *)
(***************************************************************************)
\* number of messages a ChatTUI submits
MaxSubmits == 2

TuiInit ==
    /\ waiting_response = FALSE
    /\ input_buffer = <<>>
    /\ submitted = <<>>
    /\ tui_event = "start"

\* the user edits the input buffer, which the waiting state allows
TuiType(t) ==
    /\ input_buffer' = t
    /\ tui_event' = "type"
    /\ UNCHANGED << waiting_response, submitted >>
    /\ UNCHANGED otherThanTui

\* an Enter binding without the test of the waiting state
EnterAcceptsWhileWaiting(waiting, text) == text # <<>>

\* tui.py:117-120: Enter goes on to submit `text`, the stripped buffer
EnterAccepts(waiting, text) == ~waiting /\ text # <<>>

\* tui.py:115-125: the Enter binding
TuiEnter ==
    LET text == Strip(input_buffer)
    IN  /\ IF EnterAccepts(waiting_response, text)
           THEN /\ Len(submitted) < MaxSubmits
                /\ input_buffer' = <<>>
                /\ submitted' = Append(submitted, text)
           ELSE UNCHANGED << input_buffer, submitted >>
        /\ tui_event' = "enter"
        /\ UNCHANGED waiting_response
        /\ UNCHANGED otherThanTui

\* tui.py:74-78
TuiSetWaiting(waiting) ==
    /\ waiting_response' = waiting
    /\ tui_event' = "set_waiting"
    /\ UNCHANGED << input_buffer, submitted >>
    /\ UNCHANGED otherThanTui

NextTui ==
    \/ \E t \in TypedTexts : TuiType(t)
    \/ TuiEnter
    \/ \E b \in BOOLEAN : TuiSetWaiting(b)

InitTui == LoopIdle /\ SessionIdle /\ ConsoleIdle /\ RouterIdle /\ CalcIdle
           /\ PipedIdle /\ TuiInit /\ App4Idle

SpecTui == InitTui /\ [][NextTui]_vars

\* C25: an Enter pressed in the waiting state starts no submission and
\* leaves the input buffer as it is; no step taken in the waiting state
\* submits a message; an Enter on an empty or whitespace-only buffer
\* submits nothing, in any state.
C25_NoSubmitWhileWaiting ==
    [][ /\ waiting_response => submitted' = submitted
        /\ tui_event' = "enter" /\ waiting_response =>
               input_buffer' = input_buffer
        /\ tui_event' = "enter" /\ Strip(input_buffer) = <<>> =>
               submitted' = submitted ]_vars

\* Enter has just been pressed in the waiting state on a buffer that holds
\* a message, after an earlier message was submitted
C25_Witness ==
    /\ tui_event = "enter"
    /\ waiting_response
    /\ Strip(input_buffer) # <<>>
    /\ Len(submitted) = 1

\* the tasks of the session that have not finished
SessionPending == { t \in 1..Len(s_tasks) : s_tasks[t].pc \in {"routing", "llm"} }

\* the echoes and replies written to the console, without the warnings
SessionShown == SelectSeq(s_display, LAMBDA d : d.type # "warning")

\* seq holds message 1, its reply, message 2, its reply, ... as far as it
\* goes
AlternatesInOrder(seq, user, reply) ==
    \A i \in DOMAIN seq :
        IF i % 2 = 1
        THEN seq[i][1] = user /\ seq[i][2] = (i + 1) \div 2
        ELSE seq[i][1] = reply /\ seq[i][2] = i \div 2

\* C27: in piped mode at most one reply task is pending; the history and
\* the console hold each line followed by its reply, in input order; when
\* the next line is taken the replies to all earlier lines are in the
\* history and on the console; no line is taken after a line classified
\* end.
C27_PipedOneAtATime ==
    /\ Cardinality(SessionPending) <= 1
    /\ AlternatesInOrder([i \in DOMAIN s_history |->
                             <<s_history[i].role, s_history[i].msg>>],
                         "user", "assistant")
    /\ AlternatesInOrder([i \in DOMAIN SessionShown |->
                             <<SessionShown[i].type, SessionShown[i].msg>>],
                         "user", "assistant")
    /\ ppc = "for" =>
           Len(s_history) = 2 * line_no /\ Len(SessionShown) = 2 * line_no
    /\ \A t \in 1..Len(s_tasks) :
           s_tasks[t].action = "end" => t = Len(s_tasks) /\ t = line_no

\* the second of three piped lines was classified end: the program has
\* returned with two lines answered and the third not taken
C27_Witness ==
    /\ ppc = "returned"
    /\ s_should_exit
    /\ Len(piped_lines) = 3
    /\ line_no = 2
    /\ Len(s_history) = 4

(***************************************************************************)
(* Further properties of the interactive loop.                             *)
(***************************************************************************)
\* C22: while the input widget is shown and its hint bar shows the pending
\* requests, the number shown is the number of reply tasks in flight.
C22_HintShowsInFlight ==
    mainpc = "widget" /\ ~hint_text.ctrlc =>
        hint_text.n = Cardinality(InFlight)

\* C23: every end_chat call of a reply task is given, as its reason, the
\* message the task was created for.
C23_ReasonIsCapturedMessage ==
    \A q \in requests :
        q.call = "end_chat" => q.reason = Some(pending_tasks[q.task].msg)

\* C28: the message list sent to the chat model to answer message i ends
\* with message i and holds no message submitted after i and no reply to
\* such a message.
C28_ChatSeesOnlyEarlierMessages ==
    \A q \in requests :
        q.call = "chat" =>
            /\ q.sent # <<>>
            /\ q.sent[Len(q.sent)] = UserMsg(q.task)
            /\ \A i \in DOMAIN q.sent : q.sent[i].msg <= q.task

\* C29: pending_count is never negative and is the number of reply tasks
\* that have been created and have not finished, so it is 0 once every
\* task has finished, normally or with an exception.
C29_PendingCountIsInFlight ==
    /\ pending_count >= 0
    /\ pending_count = Cardinality(InFlight)

\* two tasks were created; one ended with an exception, the other normally,
\* and the count is back to 0
C29_Witness ==
    /\ Len(pending_tasks) = 2
    /\ \E t \in Tasks : pending_tasks[t].pc = "failed"
    /\ \E t \in Tasks : pending_tasks[t].pc = "done"
    /\ pending_count = 0

(***************************************************************************)
(* Further properties of the console loops.                                *)
(***************************************************************************)
\* C26: in the 110 loop, when a turn is complete the message list that the
\* next graph invocation starts from holds, for every turn so far, the
\* user's message followed by the assistant's reply.
C26_MessagesAccumulate ==
    capp = "tui110" /\ cpc = "input" =>
        \A k \in 1..cturn :
            \E i, j \in DOMAIN chistory :
                /\ i < j
                /\ chistory[i].role = "user" /\ chistory[i].turn = k
                /\ chistory[j].role = "assistant" /\ chistory[j].turn = k

====
